---------------------------- MODULE Spec2Model ----------------------------
(***************************************************************************)
(* Model of the logical restore job of the Database Lab Engine             *)
(* (pkg/retrieval/engine/postgres/logical/restore.go) and of the logical   *)
(* snapshot job that follows it (initialize/snapshot/logical.go).          *)
(*                                                                         *)
(* One RestoreJob object per element of Jobs.  RestoreJob.Run is split at  *)
(* its calls to the container daemon, so that two runs against the same    *)
(* daemon interleave there.  Text (names, dump lines) is a sequence of     *)
(* one-character strings, so that prefixes and trimming are computed.      *)
(***************************************************************************)
EXTENDS Integers, Sequences, FiniteSets, TLC

\* ------------------------------------------------------------------ bounds

\* How many times Run is invoked on one job object.
MaxRuns == 2

\* How many lines a plain dump file has at most.
MaxLines == 3

\* How many characters a file name has at most.
MaxNameLen == 4

\* ------------------------------------------------------- program constants

defaultParallelJobs == 1

restoreContainerPrefix == <<"d","b","l","a","b","_","l","r","_">>

dumpMetafile == <<"t","o","c",".","d","a","t">>

prefixDBName == <<"d","b","n","a","m","e",":">>

prefixConnectDB == <<"\\","c","o","n","n","e","c","t"," ">>

prefixCreateTable == <<"C","R","E","A","T","E"," ","T","A","B","L","E"," ">>

plainFormat == "plain"

directoryFormat == "directory"

customFormat == "custom"

\* defaults.DBName, the database every restore command connects to.
DefaultDBName == <<"p","o","s","t","g","r","e","s">>

LogicalDataType == "logical"

\* ------------------------------------------------------------ text helpers

HasPrefix(s, p) == Len(s) >= Len(p) /\ SubSeq(s, 1, Len(p)) = p

TrimPrefix(s, p) == IF HasPrefix(s, p) THEN SubSeq(s, Len(p) + 1, Len(s)) ELSE s

IsSpace(c) == c \in {" ", "\t", "\n", "\r"}

RECURSIVE TrimLeft(_)
TrimLeft(s) == IF s # <<>> /\ IsSpace(Head(s)) THEN TrimLeft(Tail(s)) ELSE s

RECURSIVE TrimRight(_)
TrimRight(s) ==
    IF s # <<>> /\ IsSpace(s[Len(s)]) THEN TrimRight(SubSeq(s, 1, Len(s) - 1)) ELSE s

TrimSpace(s) == TrimRight(TrimLeft(s))

\* path.Join of a directory and one element.
PathJoin(dir, name) == dir \o <<"/">> \o name

\* ------------------------------------------------------------- timestamps

\* util.DataStateAtFormat strings and the instants they denote.  The empty
\* string and any other text do not parse.
ZeroTime == "0001-01-01T00:00:00Z"

CanonicalDSA == {"20200101000000", "20200202000000"}

ParseDSA(s) ==
    CASE s = "20200101000000" -> [ok |-> TRUE, time |-> "2020-01-01T00:00:00Z"]
      [] s = "20200202000000" -> [ok |-> TRUE, time |-> "2020-02-02T00:00:00Z"]
      [] OTHER -> [ok |-> FALSE, time |-> ZeroTime]

\* -------------------------------------------------------- dump discovery

NoName == <<>>

DBDefinition(format, dbName, tables) ==
    [Format |-> format, dbName |-> dbName, Tables |-> tables]

\* m[k] = v, as for a Go map.
Put(m, k, v) == [x \in (DOMAIN m) \cup {k} |-> IF x = k THEN v ELSE m[x]]

NoDBs == <<>>

\* parsePlainFile that reads on after a CREATE TABLE line.
RECURSIVE parsePlainFile_SkipTable(_)
parsePlainFile_SkipTable(lines) ==
    IF lines = <<>>
    THEN [name |-> NoName, err |-> "errDBNameNotFound"]
    ELSE LET line == Head(lines) IN
         IF HasPrefix(line, prefixConnectDB)
         THEN LET nameCandidate == TrimSpace(TrimPrefix(line, prefixConnectDB)) IN
              IF Len(nameCandidate) > 0
              THEN [name |-> nameCandidate, err |-> "nil"]
              ELSE [name |-> NoName, err |-> "errDBNameNotFound"]
         ELSE parsePlainFile_SkipTable(Tail(lines))

\* parsePlainFile on the lines of an opened file.
RECURSIVE parsePlainFile(_)
parsePlainFile(lines) ==
    IF lines = <<>>
    THEN [name |-> NoName, err |-> "errDBNameNotFound"]
    ELSE LET line == Head(lines) IN
         IF HasPrefix(line, prefixConnectDB)
         THEN LET nameCandidate == TrimSpace(TrimPrefix(line, prefixConnectDB)) IN
              IF Len(nameCandidate) > 0
              THEN [name |-> nameCandidate, err |-> "nil"]
              ELSE [name |-> NoName, err |-> "errDBNameNotFound"]
         ELSE IF HasPrefix(line, prefixCreateTable)
              THEN [name |-> NoName, err |-> "errDBNameNotFound"]
              ELSE parsePlainFile(Tail(lines))

\* The loop of discoverDumpLocation over the entries ReadDir returned.
\* The loop of discoverDumpLocation that gives a subdirectory the plain format
\* when the location also holds regular files.
RECURSIVE discoverEntries_PlainBesideFiles(_, _)
discoverEntries_PlainBesideFiles(fileInfos, dbList) ==
    IF fileInfos = <<>>
    THEN [err |-> "nil", dbList |-> dbList]
    ELSE LET info == Head(fileInfos) IN
         IF info.IsDir
         THEN discoverEntries_PlainBesideFiles(Tail(fileInfos),
                  Put(dbList, info.Name,
                      DBDefinition(IF \E i \in 1..Len(fileInfos) : ~fileInfos[i].IsDir
                                   THEN plainFormat ELSE directoryFormat,
                                   NoName, <<>>)))
         ELSE IF ~info.Readable
              THEN [err |-> "failed to open dump file", dbList |-> NoDBs]
              ELSE LET parsed == parsePlainFile(info.Lines) IN
                   discoverEntries_PlainBesideFiles(Tail(fileInfos),
                       Put(dbList, info.Name, DBDefinition(plainFormat, parsed.name, <<>>)))

RECURSIVE discoverEntries(_, _)
discoverEntries(fileInfos, dbList) ==
    IF fileInfos = <<>>
    THEN [err |-> "nil", dbList |-> dbList]
    ELSE LET info == Head(fileInfos) IN
         IF info.IsDir
         THEN discoverEntries(Tail(fileInfos),
                  Put(dbList, info.Name, DBDefinition(directoryFormat, NoName, <<>>)))
         ELSE IF ~info.Readable
              THEN [err |-> "failed to open dump file", dbList |-> NoDBs]
              ELSE LET parsed == parsePlainFile(info.Lines) IN
                   discoverEntries(Tail(fileInfos),
                       Put(dbList, info.Name, DBDefinition(plainFormat, parsed.name, <<>>)))

discoverDumpLocation(d) ==
    IF ~d.exists
    THEN [err |-> "failed to discover dump location", dbList |-> NoDBs]
    ELSE discoverEntries(d.entries, NoDBs)

\* discoverCustomDump that takes an empty output for a name.
discoverCustomDump_EmptyName(exec, outputLine) ==
    IF exec # "ok"
    THEN [err |-> "failed to find a database name to restore", dbList |-> NoDBs]
    ELSE LET dbName == TrimSpace(TrimPrefix(outputLine, prefixDBName)) IN
         [err |-> "nil",
          dbList |-> Put(NoDBs, dbName, DBDefinition(customFormat, NoName, <<>>))]

\* discoverCustomDump: exec is the outcome of running the extraction command
\* in the container, outputLine what it printed.
discoverCustomDump(exec, outputLine) ==
    IF exec # "ok"
    THEN [err |-> "failed to find a database name to restore", dbList |-> NoDBs]
    ELSE IF outputLine = <<>>
         THEN [err |-> "a database name to restore not found", dbList |-> NoDBs]
         ELSE LET dbName == TrimSpace(TrimPrefix(outputLine, prefixDBName)) IN
              [err |-> "nil",
               dbList |-> Put(NoDBs, dbName, DBDefinition(customFormat, NoName, <<>>))]

\* getDBList: the databases of the options when there are any, else discovery.
getDBList(Databases, d, exec) ==
    IF DOMAIN Databases # {}
    THEN [err |-> "nil", dbList |-> Databases]
    ELSE IF d.toc = "exists"
         THEN discoverCustomDump(exec, d.grepOut)
         ELSE IF d.toc = "absent"
              THEN discoverDumpLocation(d)
              ELSE [err |-> "stat failed", dbList |-> NoDBs]

\* ------------------------------------------------------ restore commands
\* The literal words of the commands, as text.
ArgPgRestore == <<"p","g","_","r","e","s","t","o","r","e">>

ArgPsql == <<"p","s","q","l">>

ArgUsername == <<"-","-","u","s","e","r","n","a","m","e">>

ArgDbname == <<"-","-","d","b","n","a","m","e">>

ArgNoPrivileges == <<"-","-","n","o","-","p","r","i","v","i","l","e","g","e","s">>

ArgNoOwner == <<"-","-","n","o","-","o","w","n","e","r">>

ArgCreate == <<"-","-","c","r","e","a","t","e">>

ArgClean == <<"-","-","c","l","e","a","n">>

ArgIfExists == <<"-","-","i","f","-","e","x","i","s","t","s">>

ArgJobs == <<"-","-","j","o","b","s">>

ArgTable == <<"-","-","t","a","b","l","e">>

ArgFile == <<"-","-","f","i","l","e">>

\* strconv.Itoa.
Digit(n) == <<"0","1","2","3","4","5","6","7","8","9">>[n + 1]

RECURSIVE ItoaNat(_)
ItoaNat(n) == IF n < 10 THEN <<Digit(n)>> ELSE ItoaNat(n \div 10) \o <<Digit(n % 10)>>

Itoa(n) == IF n < 0 THEN <<"-">> \o ItoaNat(0 - n) ELSE ItoaNat(n)

\* \W of the regular expression package: anything but a letter, a digit or
\* the underscore.
WordChars ==
    {"a","b","c","d","e","f","g","h","i","j","k","l","m","n","o","p","q","r","s","t",
     "u","v","w","x","y","z","A","B","C","D","E","F","G","H","I","J","K","L","M","N",
     "O","P","Q","R","S","T","U","V","W","X","Y","Z","0","1","2","3","4","5","6","7",
     "8","9","_"}

\* filepath.Ext: the suffix from the last dot of the last path element on.
RECURSIVE Ext(_)
Ext(fileName) ==
    IF fileName = <<>> \/ fileName[Len(fileName)] = "/"
    THEN <<>>
    ELSE IF fileName[Len(fileName)] = "."
         THEN <<".">>
         ELSE LET e == Ext(SubSeq(fileName, 1, Len(fileName) - 1)) IN
              IF e = <<>> THEN <<>> ELSE e \o <<fileName[Len(fileName)]>>

TrimSuffix(s, suffix) ==
    IF Len(s) >= Len(suffix) /\ SubSeq(s, Len(s) - Len(suffix) + 1, Len(s)) = suffix
    THEN SubSeq(s, 1, Len(s) - Len(suffix))
    ELSE s

\* formatDBName that takes the dot for a word character.
formatDBName_DotsKept(fileName) ==
    LET base == TrimSuffix(fileName, Ext(fileName)) IN
    [i \in 1..Len(base) |-> IF base[i] \in WordChars \cup {"."} THEN base[i] ELSE "_"]

formatDBName(fileName) ==
    LET base == TrimSuffix(fileName, Ext(fileName)) IN
    [i \in 1..Len(base) |-> IF base[i] \in WordChars THEN base[i] ELSE "_"]

\* getDumpLocation that joins the unit's name to the location for every format.
getDumpLocation_AlwaysJoined(o, dumpFormat, dbName) == PathJoin(o.DumpLocation, dbName)

getDumpLocation(o, dumpFormat, dbName) ==
    IF dumpFormat = customFormat
    THEN o.DumpLocation
    ELSE PathJoin(o.DumpLocation, dbName)

\* buildPlainTextCommand that connects to the database named in the dump.
buildPlainTextCommand_EmbeddedName(o, user, dumpName, definition) ==
    LET dbName == IF definition.dbName = NoName
                  THEN formatDBName(dumpName)
                  ELSE definition.dbName
    IN  <<ArgPsql, ArgUsername, user, ArgDbname, dbName, ArgFile,
          getDumpLocation(o, definition.Format, dumpName)>>

buildPlainTextCommand(o, user, dumpName, definition) ==
    LET dbName == IF definition.dbName = NoName
                  THEN formatDBName(dumpName)
                  ELSE DefaultDBName
    IN  <<ArgPsql, ArgUsername, user, ArgDbname, dbName, ArgFile,
          getDumpLocation(o, definition.Format, dumpName)>>

RECURSIVE TableArgs(_)
TableArgs(tables) ==
    IF tables = <<>> THEN <<>> ELSE <<ArgTable, Head(tables)>> \o TableArgs(Tail(tables))

\* buildPGRestoreCommand that asks for the creation of every database.
buildPGRestoreCommand_AlwaysCreate(o, user, dumpName, definition) ==
    <<ArgPgRestore, ArgUsername, user, ArgDbname, DefaultDBName, ArgNoPrivileges, ArgNoOwner>>
    \o <<ArgCreate>>
    \o (IF o.ForceInit THEN <<ArgClean, ArgIfExists>> ELSE <<>>)
    \o <<ArgJobs, Itoa(o.ParallelJobs)>>
    \o TableArgs(definition.Tables)
    \o <<getDumpLocation(o, definition.Format, dumpName)>>

buildPGRestoreCommand(o, user, dumpName, definition) ==
    <<ArgPgRestore, ArgUsername, user, ArgDbname, DefaultDBName, ArgNoPrivileges, ArgNoOwner>>
    \o (IF dumpName # DefaultDBName THEN <<ArgCreate>> ELSE <<>>)
    \o (IF o.ForceInit THEN <<ArgClean, ArgIfExists>> ELSE <<>>)
    \o <<ArgJobs, Itoa(o.ParallelJobs)>>
    \o TableArgs(definition.Tables)
    \o <<getDumpLocation(o, definition.Format, dumpName)>>

buildLogicalRestoreCommand(o, user, dumpName, definition) ==
    IF definition.Format = plainFormat
    THEN buildPlainTextCommand(o, user, dumpName, definition)
    ELSE buildPGRestoreCommand(o, user, dumpName, definition)

\* The value following --jobs in a command, <<>> when there is none.
RECURSIVE JobsArg(_)
JobsArg(cmd) ==
    IF Len(cmd) < 2 THEN <<>>
    ELSE IF Head(cmd) = ArgJobs THEN cmd[2] ELSE JobsArg(Tail(cmd))

\* --------------------------------------------------------- the job object

DumpLocation == <<"/","d">>

\* The zero value of RestoreOptions.
ZeroOptions ==
    [DumpLocation |-> DumpLocation, ForceInit |-> FALSE, ParallelJobs |-> 0,
     Databases |-> NoDBs, Configs |-> {}]

\* options.Unmarshal into an existing struct: a key of the map is decoded into
\* its field, a field without key keeps its value, and the entries of a map
\* valued field are added to the entries it holds.
Unmarshal(cfg, o) ==
    [k \in DOMAIN o |->
        IF k \notin DOMAIN cfg THEN o[k]
        ELSE IF k = "Databases"
             THEN [d \in (DOMAIN o[k]) \cup (DOMAIN cfg[k]) |->
                      IF d \in DOMAIN cfg[k] THEN cfg[k][d] ELSE o[k][d]]
             ELSE IF k = "Configs" THEN o[k] \cup cfg[k]
                  ELSE cfg[k]]

setDefaults(o) ==
    IF o.ParallelJobs = 0 THEN [o EXCEPT !.ParallelJobs = defaultParallelJobs] ELSE o

\* Reload of the options of a job; a map that does not decode leaves them.
ReloadOptions(cfg, o) ==
    IF "undecodable" \in DOMAIN cfg THEN o ELSE setDefaults(Unmarshal(cfg, o))

NewDBMark == [DataType |-> LogicalDataType, DataStateAt |-> ""]

\* given is the option map the job was last configured with.
NewJob(cfg) ==
    [RestoreOptions |-> setDefaults(ReloadOptions(cfg, ZeroOptions)), dbMark |-> NewDBMark,
     given |-> cfg]

restoreContainerName(g) == restoreContainerPrefix \o g.InstanceID

\* ------------------------------------------------------ the database marker

NoMarkFile == [exists |-> FALSE, DataType |-> "", DataStateAt |-> ""]

\* updateDataStateAt: the pool after it.
updateDataStateAt(dbMark, pool) ==
    LET dsaTime == ParseDSA(dbMark.DataStateAt) IN
    IF ~dsaTime.ok THEN pool ELSE [pool EXCEPT !.dataStateAt = dsaTime.time]

\* What updateDataStateAt logs: the error of a DataStateAt that does not parse.
updateDataStateAtLog(dbMark) ==
    IF ParseDSA(dbMark.DataStateAt).ok THEN {} ELSE {"Invalid value for DataStateAt"}

\* What markDatabase logs of the extraction: the error it returned, if any.
extractLog(extErr) == IF extErr THEN {"Failed to extract dataStateAt"} ELSE {}

\* markDatabase that logs nothing.
markDatabase_Silent(dbMark, pool, file, dataStateAt, extErr, create, save) ==
    LET mark == IF dataStateAt # ""
                THEN [dbMark EXCEPT !.DataStateAt = dataStateAt]
                ELSE dbMark
    IN  IF create # "ok"
        THEN [err |-> "failed to create a DBMarker config of the database",
              dbMark |-> mark, pool |-> pool, file |-> file, saved |-> FALSE,
              logged |-> {}]
        ELSE IF save # "ok"
             THEN [err |-> "failed to mark the database", dbMark |-> mark, pool |-> pool,
                   file |-> [file EXCEPT !.exists = TRUE], saved |-> FALSE,
                   logged |-> {}]
             ELSE [err |-> "nil", dbMark |-> mark,
                   pool |-> updateDataStateAt(mark, pool),
                   file |-> [exists |-> TRUE, DataType |-> mark.DataType,
                             DataStateAt |-> mark.DataStateAt],
                   saved |-> TRUE,
                   logged |-> {}]

\* markDatabase that updates the pool before the marker is saved.
markDatabase_UpdateUnsaved(dbMark, pool, file, dataStateAt, extErr, create, save) ==
    LET mark == IF dataStateAt # ""
                THEN [dbMark EXCEPT !.DataStateAt = dataStateAt]
                ELSE dbMark
    IN  IF create # "ok"
        THEN [err |-> "failed to create a DBMarker config of the database",
              dbMark |-> mark, pool |-> updateDataStateAt(mark, pool), file |-> file,
              saved |-> FALSE,
              logged |-> extractLog(extErr) \cup updateDataStateAtLog(mark)]
        ELSE IF save # "ok"
             THEN [err |-> "failed to mark the database", dbMark |-> mark,
                   pool |-> updateDataStateAt(mark, pool),
                   file |-> [file EXCEPT !.exists = TRUE], saved |-> FALSE,
                   logged |-> extractLog(extErr) \cup updateDataStateAtLog(mark)]
             ELSE [err |-> "nil", dbMark |-> mark,
                   pool |-> updateDataStateAt(mark, pool),
                   file |-> [exists |-> TRUE, DataType |-> mark.DataType,
                             DataStateAt |-> mark.DataStateAt],
                   saved |-> TRUE,
                   logged |-> extractLog(extErr) \cup updateDataStateAtLog(mark)]

\* markDatabase. dataStateAt is what retrieveDataStateAt returned ("" with an
\* error or without a timestamp) and extErr whether it returned an error;
\* create and save are the outcomes of CreateConfig and SaveConfig.  logged
\* are the errors written to the log.
\* markDatabase that takes the extracted timestamp as it is, empty or not.
markDatabase_ResetOnEmpty(dbMark, pool, file, dataStateAt, extErr, create, save) ==
    LET mark == [dbMark EXCEPT !.DataStateAt = dataStateAt]
    IN  IF create # "ok"
        THEN [err |-> "failed to create a DBMarker config of the database",
              dbMark |-> mark, pool |-> pool, file |-> file, saved |-> FALSE,
              logged |-> extractLog(extErr)]
        ELSE IF save # "ok"
             THEN [err |-> "failed to mark the database", dbMark |-> mark, pool |-> pool,
                   file |-> [file EXCEPT !.exists = TRUE], saved |-> FALSE,
                   logged |-> extractLog(extErr)]
             ELSE [err |-> "nil", dbMark |-> mark,
                   pool |-> updateDataStateAt(mark, pool),
                   file |-> [exists |-> TRUE, DataType |-> mark.DataType,
                             DataStateAt |-> mark.DataStateAt],
                   saved |-> TRUE,
                   logged |-> extractLog(extErr) \cup updateDataStateAtLog(mark)]

markDatabase(dbMark, pool, file, dataStateAt, extErr, create, save) ==
    LET mark == IF dataStateAt # ""
                THEN [dbMark EXCEPT !.DataStateAt = dataStateAt]
                ELSE dbMark
    IN  IF create # "ok"
        THEN [err |-> "failed to create a DBMarker config of the database",
              dbMark |-> mark, pool |-> pool, file |-> file, saved |-> FALSE,
              logged |-> extractLog(extErr)]
        ELSE IF save # "ok"
             THEN [err |-> "failed to mark the database", dbMark |-> mark, pool |-> pool,
                   file |-> [file EXCEPT !.exists = TRUE], saved |-> FALSE,
                   logged |-> extractLog(extErr)]
             ELSE [err |-> "nil", dbMark |-> mark,
                   pool |-> updateDataStateAt(mark, pool),
                   file |-> [exists |-> TRUE, DataType |-> mark.DataType,
                             DataStateAt |-> mark.DataStateAt],
                   saved |-> TRUE,
                   logged |-> extractLog(extErr) \cup updateDataStateAtLog(mark)]

\* ------------------------------------------------------------- restoreDB

Cmd(kind, unit, argv, ok) == [kind |-> kind, unit |-> unit, argv |-> argv, ok |-> ok]

prepareDBCommand(user, tempFile) ==
    <<ArgPsql, ArgUsername, user, ArgDbname, DefaultDBName, ArgFile, tempFile>>

\* ioutil.TempFile with the pattern createdb_<dbName>_*.sql; the random part
\* it puts for the star is written 0.
TempFileName(o, dbName) ==
    PathJoin(o.DumpLocation,
             <<"c","r","e","a","t","e","d","b","_">> \o dbName
                 \o <<"_","0",".","s","q","l">>)

retrieveCommand(dumpLocation) ==
    <<<<"s","h">>, <<"-","c">>,
      ArgPgRestore \o <<" ","-","-","l","i","s","t"," ">> \o dumpLocation
          \o <<" ","|"," ","h","e","a","d"," ","-","n"," ","1","0">>>>

\* The commands prepareDB runs in the container under an outcome of it.
prepareCmds(o, user, dbName, definition, out) ==
    IF definition.Format = plainFormat /\ definition.dbName = NoName
       /\ out.prep \in {"ok", "exec"}
    THEN <<Cmd("prepare", dbName, prepareDBCommand(user, TempFileName(o, dbName)),
               out.prep = "ok")>>
    ELSE <<>>

\* A temporary file removed only when prepareDB returns nil.
tempFiles_RemovedOnSuccess(o, dbName, definition, out) ==
    LET created == IF definition.Format = plainFormat /\ definition.dbName = NoName
                      /\ out.prep # "tempfile"
                   THEN {TempFileName(o, dbName)}
                   ELSE {}
    IN  [created |-> created, left |-> IF out.prep = "ok" THEN {} ELSE created]

\* The temporary files of prepareDB under an outcome of it: the one that
\* ioutil.TempFile made, and what the deferred os.Remove leaves of it when
\* prepareDB returns.
tempFiles(o, dbName, definition, out) ==
    LET created == IF definition.Format = plainFormat /\ definition.dbName = NoName
                      /\ out.prep # "tempfile"
                   THEN {TempFileName(o, dbName)}
                   ELSE {}
        removed == created
    IN  [created |-> created, left |-> created \ removed]

restoreCmd(o, user, dbName, definition, out) ==
    Cmd("restore", dbName, buildLogicalRestoreCommand(o, user, dbName, definition),
        out.restore = "ok")

\* restoreDB that marks the database whatever the format of the dump.
afterRestore_MarkAlways(o, dbMark, pool, file, dbName, definition, out) ==
    LET dumpLocation == getDumpLocation(o, definition.Format, dbName)
        m == markDatabase(dbMark, pool, file, out.ext, out.extErr, out.create, out.save)
    IN  [err |-> IF m.err = "nil" THEN "nil" ELSE "failed to mark the database",
         dbMark |-> m.dbMark, pool |-> m.pool, file |-> m.file,
         saved |-> m.saved, marking |-> TRUE, logged |-> m.logged,
         cmds |-> <<Cmd("meta", dbName, retrieveCommand(dumpLocation), out.ext # "")>>]

\* restoreDB from the restore command's success on: nothing more for a plain
\* dump, markDatabase for the others.
afterRestore(o, dbMark, pool, file, dbName, definition, out) ==
    IF definition.Format = plainFormat
    THEN [err |-> "nil", dbMark |-> dbMark, pool |-> pool, file |-> file,
          saved |-> FALSE, marking |-> FALSE, cmds |-> <<>>, logged |-> {}]
    ELSE LET dumpLocation == getDumpLocation(o, definition.Format, dbName)
             m == markDatabase(dbMark, pool, file, out.ext, out.extErr, out.create, out.save)
         IN  [err |-> IF m.err = "nil" THEN "nil" ELSE "failed to mark the database",
              dbMark |-> m.dbMark, pool |-> m.pool, file |-> m.file,
              saved |-> m.saved, marking |-> TRUE, logged |-> m.logged,
              cmds |-> <<Cmd("meta", dbName, retrieveCommand(dumpLocation),
                             out.ext # "")>>]

RestoreResult(err, dbMark, pool, file, saved, restored, marking, cmds, logged) ==
    [err |-> err, dbMark |-> dbMark, pool |-> pool, file |-> file, saved |-> saved,
     restored |-> restored, marking |-> marking, cmds |-> cmds, logged |-> logged]

\* restoreDB that marks the database whatever the restore command returned.
restoreDB_MarkUnchecked(o, user, dbMark, pool, file, dbName, definition, out) ==
    LET needPrep == definition.Format = plainFormat /\ definition.dbName = NoName
        pcs == prepareCmds(o, user, dbName, definition, out)
        rc == restoreCmd(o, user, dbName, definition, out)
        a == afterRestore(o, dbMark, pool, file, dbName, definition, out)
    IN  IF needPrep /\ out.prep # "ok"
        THEN RestoreResult("failed to prepare database for dump", dbMark, pool, file,
                           FALSE, FALSE, FALSE, pcs, {})
        ELSE RestoreResult(IF out.restore # "ok" THEN "failed to exec restore command"
                           ELSE a.err,
                           a.dbMark, a.pool, a.file, a.saved, out.restore = "ok",
                           a.marking, pcs \o <<rc>> \o a.cmds, a.logged)

\* restoreDB that goes on to the restore command after a failed prepareDB.
restoreDB_PrepareUnchecked(o, user, dbMark, pool, file, dbName, definition, out) ==
    LET pcs == prepareCmds(o, user, dbName, definition, out)
        rc == restoreCmd(o, user, dbName, definition, out)
        a == afterRestore(o, dbMark, pool, file, dbName, definition, out)
    IN  IF out.restore # "ok"
        THEN RestoreResult("failed to exec restore command", dbMark, pool, file,
                           FALSE, FALSE, FALSE, pcs \o <<rc>>, {})
        ELSE RestoreResult(a.err, a.dbMark, a.pool, a.file, a.saved, TRUE,
                           a.marking, pcs \o <<rc>> \o a.cmds, a.logged)

\* restoreDB of one restore unit. out gives the outcome of each call it makes:
\* prep (prepareDB: "ok", "tempfile", "write" or "exec"), restore (the
\* restore command), ext (the text retrieveDataStateAt returns), create and
\* save (the marker).  The result carries the commands executed in the
\* container, in order.
restoreDB(o, user, dbMark, pool, file, dbName, definition, out) ==
    LET needPrep == definition.Format = plainFormat /\ definition.dbName = NoName
        pcs == prepareCmds(o, user, dbName, definition, out)
        rc == restoreCmd(o, user, dbName, definition, out)
        a == afterRestore(o, dbMark, pool, file, dbName, definition, out)
    IN  IF needPrep /\ out.prep # "ok"
        THEN RestoreResult("failed to prepare database for dump", dbMark, pool, file,
                           FALSE, FALSE, FALSE, pcs, {})
        ELSE IF out.restore # "ok"
             THEN RestoreResult("failed to exec restore command", dbMark, pool, file,
                                FALSE, FALSE, FALSE, pcs \o <<rc>>, {})
             ELSE RestoreResult(a.err, a.dbMark, a.pool, a.file, a.saved, TRUE,
                                a.marking, pcs \o <<rc>> \o a.cmds, a.logged)

\* ------------------------------------------------------------- fixtures

Jobs == {"j1", "j2"}

UnitA == <<"a">>

UnitB == <<"b">>

FileLegacy == <<"l","-","d",".","s","q","l">>

FilePlain == <<"p",".","s","q","l">>

Dir(name) == [Name |-> name, IsDir |-> TRUE, Readable |-> TRUE, Lines |-> <<>>]

File(name, lines) == [Name |-> name, IsDir |-> FALSE, Readable |-> TRUE, Lines |-> lines]

T1 == "20200101000000"

T2 == "20200202000000"

\* What pg_restore --list shows of the archives under the dump location.
TSOf(tsA, tsB) == (UnitA :> tsA) @@ (UnitB :> tsB) @@ (DefaultDBName :> T1)

CustomDump(grepOut, ts) ==
    [exists |-> TRUE, toc |-> "exists", grepOut |-> grepOut, entries |-> <<>>,
     archiveTS |-> TSOf(ts, "")]

ScanDump(entries, tsA, tsB) ==
    [exists |-> TRUE, toc |-> "absent", grepOut |-> <<>>, entries |-> entries,
     archiveTS |-> TSOf(tsA, tsB)]

\* The dump locations a job is run against.
Dumps ==
    { CustomDump(prefixDBName \o <<" ","a","\n">>, T1),
      CustomDump(<<>>, T1),
      ScanDump(<<Dir(UnitA), Dir(UnitB)>>, T1, T2),
      ScanDump(<<File(FileLegacy, <<prefixCreateTable \o <<"t">>>>),
                 File(FilePlain, <<prefixConnectDB \o <<"x">>>>)>>, "", ""),
      ScanDump(<<Dir(UnitA), File(FilePlain, <<prefixConnectDB \o <<" ">>>>)>>, T1, "") }

\* The option maps a job is created or reloaded with.
OptionMaps ==
    { [ForceInit |-> FALSE],
      [ForceInit |-> TRUE, ParallelJobs |-> 0],
      [ParallelJobs |-> 0 - 1,
       Databases |-> (UnitA :> DBDefinition(directoryFormat, NoName, <<>>)),
       Configs |-> {"shared_buffers"}],
      [undecodable |-> TRUE] }

InstanceIDs == {<<"1">>, <<"2">>}

DBUser == <<"u">>

\* ---------------------------------------------------------------- state

VARIABLES
    env,          \* what the surroundings supply: option maps and faults
    containers,   \* the daemon's containers: records [ID, Name]
    dump,         \* the dump location
    globalCfg,    \* globalCfg[j]: [InstanceID]
    job,          \* job[j]: the RestoreJob object, [RestoreOptions, dbMark]
    fsPool,       \* fsPool[j]: [dataStateAt]
    markFile,     \* markFile[j]: the DBMark file beside the data directory
    dataDir,      \* dataDir[j]: "empty" or "nonempty"
    pc,           \* pc[j]: where job j is in Run and in the retrieval
    run,          \* run[j]: the locals of the current Run and what it did
    runs,         \* runs[j]: Run invocations begun
    prev,         \* prev[j]: summary of the Run before the current one
    snapshot,     \* snapshot[j]: what the snapshot job did after the last Run
    call          \* the last call of a function on its own: [fn, args, result]

vars == <<env, containers, dump, globalCfg, job, fsPool, markFile, dataDir, pc, run, runs,
          prev, snapshot, call>>

NoRun ==
    [err |-> "nil", contID |-> "", cancelled |-> FALSE, dbList |-> NoDBs, todo |-> {},
     explored |-> "none", forceInit |-> FALSE, ops |-> {}, cmds |-> <<>>, order |-> <<>>,
     restored |-> {}, marked |-> {}, failedDB |-> {}, ext |-> <<>>,
     poolAtStart |-> ZeroTime, markAtStart |-> "", fileAtStart |-> NoMarkFile,
     logs |-> 0, removed |-> {}, events |-> <<>>, createFailed |-> FALSE, analyzed |-> FALSE,
     poolBeforeFail |-> ZeroTime,
     stopped |-> FALSE, tempCreated |-> {}, tempLeft |-> {},
     lastExt |-> "",
     lastMark |-> [done |-> FALSE, extFailed |-> FALSE, markerOK |-> FALSE, err |-> "nil",
                   saved |-> FALSE, fileDSA |-> "", logged |-> {},
                   poolBefore |-> ZeroTime, poolAfter |-> ZeroTime]]

NoPrev == [valid |-> FALSE, ok |-> FALSE, dbs |-> {}, final |-> ZeroTime, extOK |-> FALSE]

NoSnapshot ==
    [ran |-> FALSE, err |-> "nil", requests |-> <<>>, scriptFailed |-> FALSE,
     createFailed |-> FALSE]

NoCall == [fn |-> "none"]

Leftover == [ID |-> "old", Name |-> restoreContainerPrefix \o <<"1">>]

\* The calls that can fail, and the cancellation of the context.
AllFaults ==
    {"explore", "pull", "hostConfig", "password", "create", "start", "readiness",
     "healthcheck", "setup", "configs", "dbname", "tempfile", "write", "prepare",
     "restore", "extract", "createConfig", "saveConfig", "analyze", "stop", "script",
     "snapshot", "cancel"}

InitWith(active, leftovers, dumps, maps, ids, faults) ==
    /\ env = [maps |-> maps, faults |-> faults]
    /\ containers \in leftovers
    /\ dump \in dumps
    /\ globalCfg \in {g \in [Jobs -> [InstanceID : InstanceIDs]] :
                        \A j \in Jobs : g[j].InstanceID \in
                            (IF j \in active THEN ids ELSE {<<"1">>})}
    /\ \E cfgs \in [Jobs -> maps \ {[undecodable |-> TRUE]}] :
           /\ \A j \in Jobs \ active : cfgs[j] = [ForceInit |-> FALSE]
           /\ job = [j \in Jobs |-> NewJob(cfgs[j])]
    /\ fsPool = [j \in Jobs |-> [dataStateAt |-> ZeroTime]]
    /\ markFile = [j \in Jobs |-> NoMarkFile]
    /\ dataDir \in {d \in [Jobs -> {"empty", "nonempty"}] :
                      \A j \in Jobs \ active : d[j] = "empty"}
    /\ pc = [j \in Jobs |-> IF j \in active THEN "idle" ELSE "off"]
    /\ run = [j \in Jobs |-> NoRun]
    /\ runs = [j \in Jobs |-> 0]
    /\ prev = [j \in Jobs |-> NoPrev]
    /\ snapshot = [j \in Jobs |-> NoSnapshot]
    /\ call = NoCall

\* ------------------------------------------------------- steps of Run

Opts(j) == job[j].RestoreOptions

\* The outcomes of a call that does not take the context.
Fallible(op) == {"ok"} \cup (IF op \in env.faults THEN {"err"} ELSE {})

\* A call that takes the context fails once the context is cancelled.
Outcomes(j, op) == IF run[j].cancelled THEN {"err"} ELSE Fallible(op)

Goto(j, to, r) ==
    /\ pc' = [pc EXCEPT ![j] = to]
    /\ run' = [run EXCEPT ![j] = r]

\* The check of the data directory without the test for a non-empty one.
checkDataDir_Unguarded(explore, isEmpty, forceInit) ==
    IF explore # "ok" THEN "failed to explore the data directory" ELSE "nil"

\* The check of the data directory at the start of Run: the error returned.
checkDataDir(explore, isEmpty, forceInit) ==
    IF explore # "ok" THEN "failed to explore the data directory"
    ELSE IF ~isEmpty /\ ~forceInit THEN "the data directory is not empty"
         ELSE "nil"

Summary(j) ==
    [valid |-> runs[j] > 0,
     ok |-> run[j].err = "nil",
     dbs |-> DOMAIN run[j].dbList,
     final |-> fsPool[j].dataStateAt,
     extOK |-> \A d \in DOMAIN run[j].ext : run[j].ext[d] = dump.archiveTS[d]]

\* Run, lines 155-170.
RunBegin(j) ==
    /\ pc[j] = "idle"
    /\ runs[j] < MaxRuns
    /\ \E explore \in Fallible("explore") :
         LET isEmpty == dataDir[j] = "empty"
             err == checkDataDir(explore, isEmpty, Opts(j).ForceInit)
             r == [NoRun EXCEPT !.explored = IF explore # "ok" THEN "error"
                                             ELSE dataDir[j],
                                !.forceInit = Opts(j).ForceInit,
                                !.poolAtStart = fsPool[j].dataStateAt,
                                !.markAtStart = job[j].dbMark.DataStateAt,
                                !.fileAtStart = markFile[j],
                                !.lastExt = run[j].lastExt,
                                !.err = err]
         IN  Goto(j, IF err = "nil" THEN "pull" ELSE "returned", r)
    /\ runs' = [runs EXCEPT ![j] = @ + 1]
    /\ prev' = [prev EXCEPT ![j] = Summary(j)]
    /\ snapshot' = [snapshot EXCEPT ![j] = NoSnapshot]
    /\ UNCHANGED <<env, call, containers, dump, globalCfg, job, fsPool, markFile, dataDir>>

\* tools.PullImage.
PullImage(j) ==
    /\ pc[j] = "pull"
    /\ \E o \in Outcomes(j, "pull") :
         LET r == [run[j] EXCEPT !.ops = @ \cup {"pull"}] IN
         IF o = "ok"
         THEN Goto(j, "config", r)
         ELSE Goto(j, "returned", [r EXCEPT !.err = "failed to scan image pulling response"])
    /\ UNCHANGED <<env, call, containers, dump, globalCfg, job, fsPool, markFile, dataDir, runs, prev,
                   snapshot>>

\* getHostConfig and tools.GeneratePassword.
PrepareContainerConfig(j) ==
    /\ pc[j] = "config"
    /\ \E o \in Outcomes(j, "hostConfig")
                  \cup (IF "password" \in env.faults THEN {"password"} ELSE {}) :
         CASE o = "ok" -> Goto(j, "create", run[j])
           [] o = "err" ->
                Goto(j, "returned",
                     [run[j] EXCEPT !.err = "failed to build container host config"])
           [] OTHER ->
                Goto(j, "returned",
                     [run[j] EXCEPT !.err = "failed to generate PostgreSQL password"])
    /\ UNCHANGED <<env, call, containers, dump, globalCfg, job, fsPool, markFile, dataDir, runs, prev,
                   snapshot>>

NameTaken(cs, name) == \E c \in cs : c.Name = name

\* A teardown by name on a ContainerCreate error.
createErrorExit_RemoveByName(cs, name) == {c \in cs : c.Name # name}

\* The containers after Run has returned on a ContainerCreate error: nothing
\* is deferred yet, so nothing is removed.
createErrorExit(cs, name) == cs

\* dockerClient.ContainerCreate under the restore container's name; the daemon
\* refuses a name that is in use.
ContainerCreate(j) ==
    /\ pc[j] = "create"
    /\ LET name == restoreContainerName(globalCfg[j])
           r == [run[j] EXCEPT !.ops = @ \cup {"create"}]
       IN  \E o \in Outcomes(j, "create") :
             IF o = "ok" /\ ~NameTaken(containers, name)
             THEN /\ containers' = containers \cup {[ID |-> j, Name |-> name]}
                  /\ Goto(j, "start", [r EXCEPT !.contID = j])
             ELSE /\ containers' = createErrorExit(containers, name)
                  /\ Goto(j, "returned",
                          [r EXCEPT !.err = "failed to create container",
                                    !.createFailed = TRUE,
                                    !.removed = {c.ID : c \in containers
                                                          \ createErrorExit(containers, name)}])
    /\ UNCHANGED <<env, call, dump, globalCfg, job, fsPool, markFile, dataDir, runs, prev, snapshot>>

\* dockerClient.ContainerStart.
ContainerStart(j) ==
    /\ pc[j] = "start"
    /\ \E o \in Outcomes(j, "start") :
         LET r == [run[j] EXCEPT !.ops = @ \cup {"start"}] IN
         IF o = "ok"
         THEN Goto(j, "ready", r)
         ELSE Goto(j, "deferred", [r EXCEPT !.err = "failed to start container"])
    /\ UNCHANGED <<env, call, containers, dump, globalCfg, job, fsPool, markFile, dataDir, runs, prev,
                   snapshot>>

AfterReadiness(j) == IF Opts(j).Configs # {} THEN "configs" ELSE "dblist"

\* tools.CheckContainerReadiness: healthy, an ErrHealthCheck, or another error.
CheckContainerReadiness(j) ==
    /\ pc[j] = "ready"
    /\ \E o \in Outcomes(j, "readiness")
                  \cup (IF ~run[j].cancelled /\ "healthcheck" \in env.faults
                        THEN {"healthcheck"} ELSE {}) :
         CASE o = "ok" ->
                /\ Goto(j, AfterReadiness(j), run[j])
                /\ dataDir' = [dataDir EXCEPT ![j] = "nonempty"]
           [] o = "healthcheck" ->
                /\ Goto(j, "setup", run[j])
                /\ UNCHANGED dataDir
           [] OTHER ->
                /\ Goto(j, "deferred", [run[j] EXCEPT !.err = "failed to readiness check"])
                /\ UNCHANGED dataDir
    /\ UNCHANGED <<env, call, containers, dump, globalCfg, job, fsPool, markFile, runs, prev, snapshot>>

\* setupPGData after an ErrHealthCheck.
SetupPGData(j) ==
    /\ pc[j] = "setup"
    /\ \E o \in Outcomes(j, "setup") :
         IF o = "ok"
         THEN /\ Goto(j, AfterReadiness(j), run[j])
              /\ dataDir' = [dataDir EXCEPT ![j] = "nonempty"]
         ELSE /\ Goto(j, "deferred", [run[j] EXCEPT !.err = "failed to set up Postgres data"])
              /\ UNCHANGED dataDir
    /\ UNCHANGED <<env, call, containers, dump, globalCfg, job, fsPool, markFile, runs, prev, snapshot>>

\* updateConfigs, when the options carry configs.
UpdateConfigs(j) ==
    /\ pc[j] = "configs"
    /\ \E o \in Outcomes(j, "configs") :
         IF o = "ok"
         THEN Goto(j, "dblist", run[j])
         ELSE Goto(j, "deferred", [run[j] EXCEPT !.err = "failed to update configs"])
    /\ UNCHANGED <<env, call, containers, dump, globalCfg, job, fsPool, markFile, dataDir, runs, prev,
                   snapshot>>

\* getDBList; the extraction command of a custom dump runs in the container.
GetDBList(j) ==
    /\ pc[j] = "dblist"
    /\ \E exec \in Outcomes(j, "dbname") :
         LET res == getDBList(Opts(j).Databases, dump, exec)
             inContainer == DOMAIN Opts(j).Databases = {} /\ dump.toc = "exists"
             r == IF inContainer
                  THEN [run[j] EXCEPT !.ops = @ \cup {"exec"},
                                      !.cmds = Append(@, Cmd("dbname", NoName,
                                                   <<PathJoin(Opts(j).DumpLocation,
                                                              dumpMetafile)>>,
                                                   exec = "ok"))]
                  ELSE run[j]
         IN  IF res.err = "nil"
             THEN Goto(j, "restore", [r EXCEPT !.dbList = res.dbList,
                                               !.todo = DOMAIN res.dbList])
             ELSE Goto(j, "deferred", [r EXCEPT !.err = res.err])
    /\ UNCHANGED <<env, call, containers, dump, globalCfg, job, fsPool, markFile, dataDir, runs, prev,
                   snapshot>>

\* The outcomes of the calls restoreDB makes for one restore unit.
RestoreOutcomes(j, d) ==
    { [prep |-> p, restore |-> rs, ext |-> e.text, extErr |-> e.err, create |-> c,
       save |-> sv] :
        p \in {x \in {"tempfile", "write"} : x \in env.faults}
              \cup (IF "err" \in Outcomes(j, "prepare") THEN {"exec"} ELSE {})
              \cup (IF "ok" \in Outcomes(j, "prepare") THEN {"ok"} ELSE {}),
        rs \in Outcomes(j, "restore"),
        e \in (IF "err" \in Outcomes(j, "extract")
               THEN {[text |-> "", err |-> TRUE]} ELSE {})
              \cup (IF "ok" \in Outcomes(j, "extract")
                    THEN {[text |-> dump.archiveTS[d], err |-> FALSE]} ELSE {}),
        c \in Fallible("createConfig"),
        sv \in Fallible("saveConfig") }

ArchiveUnit(d) == IF d \in DOMAIN dump.archiveTS THEN d ELSE DefaultDBName

\* The loop over dbList that goes on after an error of restoreDB.
afterRestoreDB_Continue(err) == "restore"

\* Where Run goes after restoreDB: on in the loop, or to its return on an error.
afterRestoreDB(err) == IF err = "nil" THEN "restore" ELSE "deferred"

\* One iteration of the loop over dbList (a Go map: any remaining key is next).
RestoreDB(j) ==
    /\ pc[j] = "restore"
    /\ run[j].todo # {}
    /\ \E d \in run[j].todo :
       \E out \in RestoreOutcomes(j, ArchiveUnit(d)) :
         LET res == restoreDB(Opts(j), DBUser, job[j].dbMark, fsPool[j], markFile[j],
                              d, run[j].dbList[d], out)
             tf == tempFiles(Opts(j), d, run[j].dbList[d], out)
             r == [run[j] EXCEPT
                     !.tempCreated = @ \cup tf.created,
                     !.tempLeft = @ \cup tf.left,
                     !.todo = @ \ {d},
                     !.ops = @ \cup {"exec"},
                     !.cmds = @ \o res.cmds,
                     !.order = Append(@, d),
                     !.restored = IF res.restored THEN @ \cup {d} ELSE @,
                     !.marked = IF res.saved THEN @ \cup {d} ELSE @,
                     !.failedDB = IF res.err # "nil" THEN @ \cup {d} ELSE @,
                     !.poolBeforeFail = IF res.err # "nil"
                                        THEN fsPool[j].dataStateAt ELSE @,
                     !.ext = IF res.marking THEN Put(@, d, out.ext) ELSE @,
                     !.lastExt = IF res.marking /\ out.ext # "" THEN out.ext ELSE @,
                     !.lastMark = IF res.marking
                                  THEN [done |-> TRUE,
                                        extFailed |-> out.ext = "",
                                        markerOK |-> out.create = "ok" /\ out.save = "ok",
                                        err |-> res.err,
                                        saved |-> res.saved,
                                        fileDSA |-> res.file.DataStateAt,
                                        logged |-> res.logged,
                                        poolBefore |-> fsPool[j].dataStateAt,
                                        poolAfter |-> res.pool.dataStateAt]
                                  ELSE @]
         IN  /\ job' = [job EXCEPT ![j].dbMark = res.dbMark]
             /\ fsPool' = [fsPool EXCEPT ![j] = res.pool]
             /\ markFile' = [markFile EXCEPT ![j] = res.file]
             /\ Goto(j, afterRestoreDB(res.err),
                     IF res.err = "nil"
                     THEN r
                     ELSE [r EXCEPT !.err = "failed to restore a database"])
    /\ UNCHANGED <<env, call, containers, dump, globalCfg, dataDir, runs, prev, snapshot>>

\* The analyze command, once the loop is over.
Analyze(j) ==
    /\ pc[j] = "restore"
    /\ run[j].todo = {}
    /\ \E o \in Outcomes(j, "analyze") :
         LET r == [run[j] EXCEPT !.ops = @ \cup {"exec"},
                                 !.cmds = Append(@, Cmd("analyze", NoName,
                                              <<Itoa(Opts(j).ParallelJobs)>>, o = "ok")),
                                 !.analyzed = (o = "ok")]
         IN  IF o = "ok"
             THEN Goto(j, "stop", r)
             ELSE Goto(j, "deferred",
                       [r EXCEPT !.err = "failed to recalculate statistics after restore"])
    /\ UNCHANGED <<env, call, containers, dump, globalCfg, job, fsPool, markFile, dataDir, runs, prev,
                   snapshot>>

\* tools.StopPostgres, then the return of Run.
StopPostgres(j) ==
    /\ pc[j] = "stop"
    /\ \E o \in Outcomes(j, "stop") :
         IF o = "ok"
         THEN Goto(j, "deferred", [run[j] EXCEPT !.stopped = TRUE])
         ELSE Goto(j, "deferred", [run[j] EXCEPT !.err = "failed to stop Postgres instance"])
    /\ UNCHANGED <<env, call, containers, dump, globalCfg, job, fsPool, markFile, dataDir, runs, prev,
                   snapshot>>

\* tools.RemoveContainer: the daemon's containers without the one of that ID.
RemoveContainer(cs, containerID) == {c \in cs : c.ID # containerID}

\* The deferred calls that print the container's logs whatever Run returns.
deferredCalls_LogsAlways(err) == <<"PrintContainerLogs", "RemoveContainer">>

\* The deferred calls of Run in the order they run, the last deferred first:
\* the container's logs when Run returns an error, then the removal of the
\* container.
deferredCalls(err) ==
    (IF err # "nil" THEN <<"PrintContainerLogs">> ELSE <<>>) \o <<"RemoveContainer">>

\* The return of Run after the container was created: its deferred calls.
RunDeferred(j) ==
    /\ pc[j] = "deferred"
    /\ containers' = RemoveContainer(containers, run[j].contID)
    /\ Goto(j, "returned",
            [run[j] EXCEPT !.logs = @ + Len(SelectSeq(deferredCalls(run[j].err),
                                                     LAMBDA e : e = "PrintContainerLogs")),
                           !.events = @ \o deferredCalls(run[j].err),
                           !.removed = @ \cup {c.ID : c \in containers
                                                        \ RemoveContainer(containers,
                                                                          run[j].contID)}])
    /\ UNCHANGED <<env, call, dump, globalCfg, job, fsPool, markFile, dataDir, runs, prev, snapshot>>

\* The caller cancels the context of a running job.
Cancel(j) ==
    /\ pc[j] \notin {"off", "idle", "returned"}
    /\ "cancel" \in env.faults
    /\ ~run[j].cancelled
    /\ run' = [run EXCEPT ![j].cancelled = TRUE]
    /\ UNCHANGED <<env, call, containers, dump, globalCfg, job, fsPool, markFile, dataDir, pc, runs,
                   prev, snapshot>>

\* ------------------------------------------ after Run: the snapshot job

extractDataStateAt(file) == IF file.exists THEN file.DataStateAt ELSE ""

\* LogicalInitial.Run that goes on after a failed preprocessing script.
LogicalInitialRun_IgnoreScript(file, script, create) ==
    [ran |-> TRUE,
     err |-> IF create = "ok" THEN "nil" ELSE "failed to create a snapshot",
     requests |-> <<extractDataStateAt(file)>>,
     scriptFailed |-> script = "err", createFailed |-> create # "ok"]

\* LogicalInitial.Run: script is "none" without a preprocessing script, else
\* the outcome of running it; create the outcome of CreateSnapshot.
LogicalInitialRun(file, script, create) ==
    IF script = "err"
    THEN [ran |-> TRUE, err |-> "preprocessing script failed", requests |-> <<>>,
          scriptFailed |-> TRUE, createFailed |-> FALSE]
    ELSE [ran |-> TRUE,
          err |-> IF create = "ok" THEN "nil" ELSE "failed to create a snapshot",
          requests |-> <<extractDataStateAt(file)>>,
          scriptFailed |-> FALSE, createFailed |-> create # "ok"]

\* The retrieval runs its jobs in order and stops at the first error: the
\* snapshot job runs after a restore job that returned no error.
SnapshotJob(j) ==
    /\ pc[j] = "returned"
    /\ run[j].err = "nil"
    /\ \E script \in {"none"} \cup Fallible("script"), create \in Fallible("snapshot") :
         snapshot' = [snapshot EXCEPT ![j] = LogicalInitialRun(markFile[j], script, create)]
    /\ pc' = [pc EXCEPT ![j] = "idle"]
    /\ UNCHANGED <<env, call, containers, dump, globalCfg, job, fsPool, markFile, dataDir, run, runs,
                   prev>>

RetrievalFailed(j) ==
    /\ pc[j] = "returned"
    /\ run[j].err # "nil"
    /\ pc' = [pc EXCEPT ![j] = "idle"]
    /\ UNCHANGED <<env, call, containers, dump, globalCfg, job, fsPool, markFile, dataDir, run, runs,
                   prev, snapshot>>

\* Reload of the job's options between two runs.
Reload(j) ==
    /\ pc[j] = "idle"
    /\ \E cfg \in env.maps :
         job' = [job EXCEPT ![j].RestoreOptions = ReloadOptions(cfg, @),
                            ![j].given = IF "undecodable" \in DOMAIN cfg THEN @ ELSE cfg]
    /\ UNCHANGED <<env, call, containers, dump, globalCfg, fsPool, markFile, dataDir, pc, run, runs,
                   prev, snapshot>>

Next ==
    \E j \in Jobs :
        \/ RunBegin(j)
        \/ PullImage(j)
        \/ PrepareContainerConfig(j)
        \/ ContainerCreate(j)
        \/ ContainerStart(j)
        \/ CheckContainerReadiness(j)
        \/ SetupPGData(j)
        \/ UpdateConfigs(j)
        \/ GetDBList(j)
        \/ RestoreDB(j)
        \/ Analyze(j)
        \/ StopPostgres(j)
        \/ RunDeferred(j)
        \/ Cancel(j)
        \/ SnapshotJob(j)
        \/ RetrievalFailed(j)
        \/ Reload(j)

\* One job object, run up to MaxRuns times.
Init == InitWith({"j1"}, {{}, {Leftover}}, Dumps, OptionMaps, {<<"1">>}, AllFaults)

Spec == Init /\ [][Next]_vars

\* Two job objects of engines that share the container daemon, which may
\* hold a container left over under the first one's name.  Each job has its
\* own pool and data directory; the faults are those that decide which run
\* holds the container.
InitConc ==
    /\ InitWith(Jobs, {{}, {Leftover}}, {ScanDump(<<Dir(UnitA)>>, T1, "")},
                {[Configs |-> {"shared_buffers"}], [undecodable |-> TRUE]},
                InstanceIDs, {"healthcheck", "restore", "cancel"})
    /\ globalCfg["j1"].InstanceID = <<"1">>
    /\ \A j \in Jobs : dataDir[j] = "empty"

SpecConc == InitConc /\ [][Next]_vars

\* ------------------------------------------- the functions on their own

\* The options a command is built under.
CmdOptions ==
    {[ZeroOptions EXCEPT !.ForceInit = f, !.ParallelJobs = n] :
        f \in BOOLEAN, n \in {defaultParallelJobs, defaultParallelJobs + 1}}

\* GlobalConfig: the database user and the configured name of the database.
GlobalCfgs == [User : {DBUser}, DBName : {DefaultDBName, UnitA}]

UnitNames == {UnitA, DefaultDBName, FileLegacy, FilePlain}

EmbeddedName == <<"x">>

Definitions ==
    {DBDefinition(f, n, t) :
        f \in {plainFormat, directoryFormat, customFormat},
        n \in {NoName, EmbeddedName},
        t \in {<<>>, <<<<"t">>>>, <<<<"t">>, <<"u">>>>}}

\* buildLogicalRestoreCommand of a job with options o and global config g.
CallBuildCommand ==
    /\ call = NoCall
    /\ \E o \in CmdOptions, g \in GlobalCfgs, dumpName \in UnitNames,
          definition \in Definitions :
         call' = [fn |-> "buildLogicalRestoreCommand",
                  args |-> [o |-> o, g |-> g, dumpName |-> dumpName,
                            definition |-> definition],
                  result |-> buildLogicalRestoreCommand(o, g.User, dumpName, definition)]
    /\ UNCHANGED <<env, containers, dump, globalCfg, job, fsPool, markFile, dataDir, pc, run,
                   runs, prev, snapshot>>

\* The lines a plain dump file is made of.
PlainLines ==
    { prefixConnectDB \o EmbeddedName,
      prefixConnectDB \o <<" ">>,
      prefixConnectDB \o <<" ">> \o EmbeddedName \o <<" ">>,
      <<"\\","c","o","n","n","e","c","t">>,
      prefixCreateTable \o <<"t">>,
      <<"S","E","T">> }

PlainFiles == UNION {[1..n -> PlainLines] : n \in 0..MaxLines}

\* discoverDumpLocation of a dump location that holds one plain file.
CallDiscoverDumpLocation ==
    /\ call = NoCall
    /\ \E lines \in PlainFiles :
         call' = [fn |-> "discoverDumpLocation",
                  args |-> [lines |-> lines],
                  result |-> discoverDumpLocation(
                                 ScanDump(<<File(FilePlain, lines)>>, "", ""))]
    /\ UNCHANGED <<env, containers, dump, globalCfg, job, fsPool, markFile, dataDir, pc, run,
                   runs, prev, snapshot>>

\* The characters file names are made of: a letter, a digit, the underscore,
\* the dot, and other non-word characters.
NameChars == {"a", "1", "_", ".", "-", "/"}

FileNames == UNION {[1..n -> NameChars] : n \in 0..MaxNameLen}

\* formatDBName of a file name.
CallFormatDBName ==
    /\ call = NoCall
    /\ \E fileName \in FileNames :
         call' = [fn |-> "formatDBName",
                  args |-> [fileName |-> fileName],
                  result |-> formatDBName(fileName)]
    /\ UNCHANGED <<env, containers, dump, globalCfg, job, fsPool, markFile, dataDir, pc, run,
                   runs, prev, snapshot>>

NextFn ==
    \/ CallBuildCommand
    \/ CallDiscoverDumpLocation
    \/ CallFormatDBName

\* No job runs; the functions are called with inputs of the sets above.
InitFn ==
    InitWith({}, {{}}, {ScanDump(<<>>, "", "")}, {[ForceInit |-> FALSE]}, {<<"1">>}, {})

SpecFn == InitFn /\ [][NextFn]_vars

\* ------------------------------------------------------------- properties

Ran(j) == runs[j] > 0

Returned(j) == Ran(j) /\ pc[j] \in {"returned", "idle"}

OwnName(j) == restoreContainerName(globalCfg[j])

RestoreCommandFailed(j) ==
    \E i \in 1..Len(run[j].cmds) : run[j].cmds[i].kind = "restore" /\ ~run[j].cmds[i].ok

RECURSIVE Perms(_)
Perms(S) ==
    IF S = {} THEN {<<>>}
    ELSE UNION {{<<x>> \o p : p \in Perms(S \ {x})} : x \in S}

\* The marker, the pool and the job's DBMark after the units of order were
\* restored and marked in that order, ext[d] being what was extracted for d.
RECURSIVE MarkAll(_, _, _, _)
MarkAll(order, dbList, ext, st) ==
    IF order = <<>> THEN st
    ELSE LET d == Head(order) IN
         IF dbList[d].Format = plainFormat
         THEN MarkAll(Tail(order), dbList, ext, st)
         ELSE LET m == markDatabase(st.dbMark, st.pool, st.file, ext[d], FALSE, "ok", "ok") IN
              MarkAll(Tail(order), dbList, ext,
                      [dbMark |-> m.dbMark, pool |-> m.pool, file |-> m.file])

StartOfRun(j) ==
    [dbMark |-> [DataType |-> LogicalDataType, DataStateAt |-> run[j].markAtStart],
     pool |-> [dataStateAt |-> run[j].poolAtStart],
     file |-> run[j].fileAtStart]

\* C1: once Run has returned, on whatever path, no container of the name
\* dblab_lr_<instanceID> exists.
C1_NoContainerAfterReturn ==
    \A j \in Jobs : pc[j] = "returned" => ~NameTaken(containers, OwnName(j))

\* C2: a non-empty data directory without forceInit makes Run fail with the
\* "not empty" error before any request to the container daemon; with an
\* empty directory or with forceInit Run goes on to the image pull.
C2_NonEmptyDataDirFailsFirst ==
    \A j \in Jobs :
        Ran(j) =>
            /\ (run[j].explored = "nonempty" /\ ~run[j].forceInit) =>
                   /\ Returned(j)
                   /\ run[j].err = "the data directory is not empty"
                   /\ run[j].ops = {}
                   /\ run[j].cmds = <<>>
                   /\ run[j].contID = ""
            /\ (run[j].explored = "empty" \/ (run[j].explored = "nonempty" /\ run[j].forceInit))
                   => /\ run[j].err # "the data directory is not empty"
                      /\ (pc[j] # "pull" => "pull" \in run[j].ops)

C2_Witness ==
    \E j \in Jobs :
        /\ pc[j] = "returned"
        /\ run[j].explored = "nonempty"
        /\ ~run[j].forceInit
        /\ run[j].err = "the data directory is not empty"

\* C3: the DBMark is written for a restore unit only after that unit's restore
\* command succeeded, and a run that fails on a unit writes no DBMark for it.
C3_MarkOnlyAfterRestore ==
    \A j \in Jobs :
        /\ run[j].marked \subseteq run[j].restored
        /\ run[j].marked \cap run[j].failedDB = {}
        /\ \A d \in run[j].marked :
              \E i \in 1..Len(run[j].cmds) :
                  /\ run[j].cmds[i].kind = "restore"
                  /\ run[j].cmds[i].unit = d
                  /\ run[j].cmds[i].ok
        /\ (Ran(j) /\ run[j].marked = {}) =>
              /\ markFile[j].DataStateAt = run[j].fileAtStart.DataStateAt
              /\ markFile[j].DataType = run[j].fileAtStart.DataType

C3_Witness ==
    \E j \in Jobs :
        /\ run[j].marked # {}
        /\ RestoreCommandFailed(j)
        /\ run[j].failedDB # {}

\* C4 as claimed: after a restore command failed, Run returns an error, the
\* container is gone and the pool's dataStateAt is the one of the job's start.
C4_FailedRestoreKeepsStartDSA ==
    \A j \in Jobs :
        (Returned(j) /\ RestoreCommandFailed(j)) =>
            /\ run[j].err # "nil"
            /\ ~\E c \in containers : c.ID = j
            /\ fsPool[j].dataStateAt = run[j].poolAtStart

\* C4 as amended: after a restore command failed, Run returns an error, the
\* container is gone and the pool's dataStateAt is the one from before the
\* failing restoreDB call; it is the one of the job's start when no database
\* was marked in this run.
C4_FailedRestoreKeepsPriorDSA ==
    \A j \in Jobs :
        (Returned(j) /\ RestoreCommandFailed(j)) =>
            /\ run[j].err # "nil"
            /\ ~\E c \in containers : c.ID = j
            /\ fsPool[j].dataStateAt = run[j].poolBeforeFail
            /\ run[j].marked = {} => fsPool[j].dataStateAt = run[j].poolAtStart

C4_Witness ==
    \E j \in Jobs :
        /\ pc[j] = "returned"
        /\ RestoreCommandFailed(j)
        /\ run[j].marked # {}
        /\ fsPool[j].dataStateAt # run[j].poolAtStart

\* C5: when the retrieval is over, either the restore returned no error and
\* CreateSnapshot was requested once, or the retrieval failed and it was not
\* requested; a failed preprocessing script leaves it unrequested and a
\* CreateSnapshot error is returned.
C5_SnapshotAllOrNothing ==
    \A j \in Jobs :
        (Ran(j) /\ pc[j] = "idle") =>
            /\ \/ run[j].err = "nil" /\ Len(snapshot[j].requests) = 1
               \/ /\ run[j].err # "nil" \/ snapshot[j].err # "nil"
                  /\ Len(snapshot[j].requests) = 0
            /\ snapshot[j].scriptFailed =>
                  Len(snapshot[j].requests) = 0 /\ snapshot[j].err # "nil"
            /\ snapshot[j].createFailed => snapshot[j].err # "nil"

C5_Witness ==
    \E j \in Jobs :
        /\ pc[j] = "idle"
        /\ run[j].err = "nil"
        /\ snapshot[j].ran
        /\ snapshot[j].scriptFailed

\* C6: a markDatabase whose extraction of dataStateAt failed does not fail by
\* that, and leaves the pool's dataStateAt as it was before it.
C6_ExtractionFailureKeepsDSA ==
    \A j \in Jobs :
        (run[j].lastMark.done /\ run[j].lastMark.extFailed) =>
            /\ run[j].lastMark.markerOK => run[j].lastMark.err = "nil"
            /\ run[j].lastMark.poolAfter = run[j].lastMark.poolBefore

\* C7: in a run whose restores all succeeded, every order of the discovered
\* databases ends with the pool's dataStateAt and the DBMark file this run
\* ended with.
C7_OrderInsignificant ==
    \A j \in Jobs :
        (pc[j] = "returned" /\ run[j].err = "nil") =>
            \A order \in Perms(DOMAIN run[j].dbList) :
                LET end == MarkAll(order, run[j].dbList, run[j].ext, StartOfRun(j)) IN
                /\ end.pool = fsPool[j]
                /\ end.file.DataStateAt = markFile[j].DataStateAt

ExtractedAsArchived(j) ==
    \A d \in DOMAIN run[j].ext : run[j].ext[d] = dump.archiveTS[d]

\* C8: a successful run with forceInit over the data directory that the run
\* before it restored from the same dump ends with that run's dataStateAt.
C8_ForceInitRerunSameDSA ==
    \A j \in Jobs :
        ( /\ pc[j] = "returned"
          /\ run[j].err = "nil"
          /\ run[j].forceInit
          /\ run[j].explored = "nonempty"
          /\ prev[j].valid /\ prev[j].ok /\ prev[j].extOK
          /\ prev[j].dbs = DOMAIN run[j].dbList
          /\ ExtractedAsArchived(j) )
        => fsPool[j].dataStateAt = prev[j].final

\* C9: no two containers bear the same name, and a run whose ContainerCreate
\* failed removes no container; a run removes only the container it created.
C9_OneContainerPerName ==
    /\ \A c1, c2 \in containers : c1.Name = c2.Name => c1 = c2
    /\ \A j \in Jobs :
          /\ run[j].createFailed => run[j].removed = {}
          /\ run[j].removed \subseteq {j}

C9_Witness ==
    \E j, k \in Jobs :
        /\ j # k
        /\ OwnName(j) = OwnName(k)
        /\ pc[j] = "returned"
        /\ run[j].createFailed
        /\ [ID |-> k, Name |-> OwnName(k)] \in containers

\* C10: a job configured with parallelJobs unspecified, zero or negative passes
\* 1 as the --jobs argument of pg_restore.
C10_NonPositiveJobsBecomeOne ==
    \A j \in Jobs :
        ("ParallelJobs" \notin DOMAIN job[j].given \/ job[j].given.ParallelJobs <= 0) =>
            JobsArg(buildPGRestoreCommand(Opts(j), DBUser, UnitA,
                                          DBDefinition(customFormat, NoName, <<>>)))
                = <<"1">>

BuiltFor(format) ==
    /\ call.fn = "buildLogicalRestoreCommand"
    /\ call.args.definition.Format = format

PsqlCommand(dbName) ==
    <<ArgPsql, ArgUsername, call.args.g.User, ArgDbname, dbName, ArgFile,
      PathJoin(call.args.o.DumpLocation, call.args.dumpName)>>

NeedsPrepare(j, d) ==
    /\ run[j].dbList[d].Format = plainFormat
    /\ run[j].dbList[d].dbName = NoName

\* C12: the create-database command is executed for a unit only when the unit
\* is plain without embedded name; such a unit's restore command comes right
\* after the successful create-database command of the same unit, a unit
\* restored without error had it run, and a failed one is the last command of
\* the run's restores, which then fails.
C12_PrepareBeforeRestore ==
    \A j \in Jobs :
        LET cs == run[j].cmds IN
        /\ \A i \in 1..Len(cs) :
              /\ cs[i].kind = "prepare" => NeedsPrepare(j, cs[i].unit)
              /\ (cs[i].kind = "restore" /\ NeedsPrepare(j, cs[i].unit)) =>
                    /\ i > 1
                    /\ cs[i - 1].kind = "prepare"
                    /\ cs[i - 1].unit = cs[i].unit
                    /\ cs[i - 1].ok
              /\ (cs[i].kind = "prepare" /\ ~cs[i].ok) =>
                    /\ i = Len(cs)
                    /\ cs[i].unit \in run[j].failedDB
                    /\ run[j].err # "nil"
        /\ \A d \in run[j].restored :
              NeedsPrepare(j, d) =>
                  \E i \in 1..Len(cs) :
                      cs[i].kind = "prepare" /\ cs[i].unit = d /\ cs[i].ok
        /\ \A d \in run[j].failedDB :
              (NeedsPrepare(j, d)
               /\ ~\E i \in 1..Len(cs) : cs[i].kind = "prepare" /\ cs[i].unit = d /\ cs[i].ok)
              => ~\E i \in 1..Len(cs) : cs[i].kind = "restore" /\ cs[i].unit = d

C12_Witness ==
    \E j \in Jobs :
        LET cs == run[j].cmds IN
        /\ \E i \in 1..(Len(cs) - 1) :
              /\ cs[i].kind = "prepare" /\ cs[i].ok /\ cs[i].unit = FileLegacy
              /\ cs[i + 1].kind = "restore" /\ cs[i + 1].unit = FileLegacy
        /\ \E i \in 1..Len(cs) :
              /\ cs[i].kind = "restore" /\ cs[i].unit = FilePlain
              /\ (i > 1 => cs[i - 1].kind # "prepare")


HasArg(cmd, arg) == \E i \in 1..Len(cmd) : cmd[i] = arg

\* C13 as claimed: for the custom and directory formats the pg_restore command
\* contains --create exactly when the unit name differs from the database
\* name configured in GlobalConfig.
C13_CreateIffNotConfiguredName ==
    (BuiltFor(customFormat) \/ BuiltFor(directoryFormat)) =>
        (HasArg(call.result, ArgCreate) <=> call.args.dumpName # call.args.g.DBName)

\* C13 as amended: for the custom and directory formats the pg_restore command
\* contains --create exactly when the unit name differs from the fixed default
\* database name defaults.DBName, whatever name GlobalConfig is configured
\* with.
C13_CreateIffNotDefaultName ==
    (BuiltFor(customFormat) \/ BuiltFor(directoryFormat)) =>
        (HasArg(call.result, ArgCreate) <=> call.args.dumpName # DefaultDBName)

C13_Witness ==
    /\ BuiltFor(directoryFormat)
    /\ call.args.dumpName = DefaultDBName
    /\ call.args.g.DBName = UnitA
    /\ call.result[1] = ArgPgRestore
    /\ ~HasArg(call.result, ArgCreate)


SavedMarkIn(j) == pc[j] = "restore" /\ run'[j].marked # run[j].marked

\* C14: a step changes the pool's dataStateAt only inside markDatabase, after
\* the DBMark was saved, and to the time parsed from the dataStateAt stored in
\* the DBMark; a saved DBMark whose dataStateAt does not parse leaves the
\* pool's dataStateAt as it was.  Reloading options never changes it.
C14_PoolSetOnlyByMarker ==
    [][\A j \in Jobs :
          /\ fsPool'[j] # fsPool[j] =>
                /\ SavedMarkIn(j)
                /\ markFile'[j].exists
                /\ markFile'[j].DataStateAt = job'[j].dbMark.DataStateAt
                /\ ParseDSA(markFile'[j].DataStateAt).ok
                /\ fsPool'[j].dataStateAt = ParseDSA(markFile'[j].DataStateAt).time
          /\ (SavedMarkIn(j) /\ ~ParseDSA(markFile'[j].DataStateAt).ok) =>
                fsPool'[j] = fsPool[j]
          /\ job'[j].RestoreOptions # job[j].RestoreOptions => fsPool'[j] = fsPool[j]
      ]_vars

C14_Witness ==
    \E j \in Jobs :
        /\ run[j].lastMark.done
        /\ run[j].lastMark.err = "nil"
        /\ run[j].lastMark.poolAfter # run[j].lastMark.poolBefore
        /\ fsPool[j].dataStateAt = ParseDSA(markFile[j].DataStateAt).time


\* C15: after the markDatabase of a restored custom or directory dump that
\* returned no error, a DBMark is saved whose dataStateAt parses, or an error
\* was logged during the marking; a markDatabase that returned an error failed
\* the restore.
C15_MarkedOrLogged ==
    \A j \in Jobs :
        run[j].lastMark.done =>
            \/ /\ run[j].lastMark.saved
               /\ ParseDSA(run[j].lastMark.fileDSA).ok
            \/ run[j].lastMark.logged # {}
            \/ /\ run[j].lastMark.err # "nil"
               /\ run[j].err # "nil"

C15_Witness ==
    \E j \in Jobs :
        /\ run[j].lastMark.done
        /\ run[j].lastMark.err = "nil"
        /\ run[j].lastMark.saved
        /\ ~ParseDSA(run[j].lastMark.fileDSA).ok
        /\ run[j].lastMark.logged = {"Invalid value for DataStateAt"}


Decisive(line) == HasPrefix(line, prefixConnectDB) \/ HasPrefix(line, prefixCreateTable)

\* The index of the first line that decides, 0 without one.
FirstDecisive(lines) ==
    IF \E i \in 1..Len(lines) : Decisive(lines[i])
    THEN CHOOSE i \in 1..Len(lines) :
             Decisive(lines[i]) /\ \A k \in 1..(i - 1) : ~Decisive(lines[k])
    ELSE 0

\* The text of s without the spaces at its two ends, found by position.
Trimmed(s) ==
    LET keep == {i \in 1..Len(s) : ~IsSpace(s[i])} IN
    IF keep = {} THEN <<>>
    ELSE SubSeq(s, CHOOSE i \in keep : \A k \in keep : i <= k,
                   CHOOSE i \in keep : \A k \in keep : i >= k)

\* The embedded name the first deciding line of a plain file gives.
NameByFirstDecisive(lines) ==
    LET i == FirstDecisive(lines) IN
    IF i = 0 \/ ~HasPrefix(lines[i], prefixConnectDB)
    THEN NoName
    ELSE Trimmed(SubSeq(lines[i], Len(prefixConnectDB) + 1, Len(lines[i])))

\* C16: the unit of a plain file has the plain format and, as embedded name,
\* the trimmed suffix of the file's first line that starts with "\connect " or
\* "CREATE TABLE " when that line is a "\connect " one with a non-blank suffix,
\* and no embedded name otherwise; the lines after it do not matter.
C16_FirstDecisiveLine ==
    call.fn = "discoverDumpLocation" =>
        /\ call.result.err = "nil"
        /\ DOMAIN call.result.dbList = {FilePlain}
        /\ call.result.dbList[FilePlain]
              = DBDefinition(plainFormat, NameByFirstDecisive(call.args.lines), <<>>)

C16_Witness ==
    /\ call.fn = "discoverDumpLocation"
    /\ Len(call.args.lines) = MaxLines
    /\ call.args.lines[1] = <<"S","E","T">>
    /\ call.args.lines[2] = prefixCreateTable \o <<"t">>
    /\ call.args.lines[3] = prefixConnectDB \o EmbeddedName
    /\ call.result.dbList[FilePlain].dbName = NoName


ExtractionRan(j) ==
    /\ pc[j] \notin {"off", "idle"}
    /\ \E i \in 1..Len(run[j].cmds) : run[j].cmds[i].kind = "dbname" /\ run[j].cmds[i].ok

\* The output of the extraction without the dbname: prefix and the spaces
\* around the rest.
NameOfOutput(outputLine) ==
    Trimmed(IF HasPrefix(outputLine, prefixDBName)
            THEN SubSeq(outputLine, Len(prefixDBName) + 1, Len(outputLine))
            ELSE outputLine)

\* C17: with toc.dat under the dump location and no databases in the options,
\* a non-empty output of the extraction gives one unit, of the custom format,
\* named by the output without the dbname: prefix and trimmed; an empty output
\* makes the run fail with "a database name to restore not found" without any
\* restore command.
C17_CustomDumpOneUnit ==
    \A j \in Jobs :
        ExtractionRan(j) =>
            IF dump.grepOut = <<>>
            THEN /\ run[j].err = "a database name to restore not found"
                 /\ run[j].dbList = NoDBs
                 /\ run[j].order = <<>>
                 /\ \A i \in 1..Len(run[j].cmds) : run[j].cmds[i].kind = "dbname"
                 /\ pc[j] \in {"deferred", "returned"}
            ELSE /\ DOMAIN run[j].dbList = {NameOfOutput(dump.grepOut)}
                 /\ \A d \in DOMAIN run[j].dbList :
                       run[j].dbList[d] = DBDefinition(customFormat, NoName, <<>>)

C17_Witness ==
    \E j \in Jobs :
        /\ ExtractionRan(j)
        /\ dump.grepOut = <<>>
        /\ pc[j] = "returned"
        /\ run[j].err = "a database name to restore not found"


\* C18: formatDBName applied to its own result returns that result.
C18_FormatDBNameIdempotent ==
    call.fn = "formatDBName" => formatDBName(call.result) = call.result

C18_Witness ==
    /\ call.fn = "formatDBName"
    /\ call.args.fileName = <<"a", "-", ".", "1">>
    /\ call.result = <<"a", "_">>
    /\ call.result # call.args.fileName


\* C19: a Run that returned an error after the container was created printed
\* the container's logs once, before the container was removed; a Run that
\* returned no error did not print them and removed the container; a Run that
\* returned before the container was created did neither.
C19_LogsOnErrorThenRemoval ==
    \A j \in Jobs :
        pc[j] = "returned" =>
            /\ (run[j].contID # "" /\ run[j].err # "nil") =>
                  /\ run[j].events = <<"PrintContainerLogs", "RemoveContainer">>
                  /\ run[j].logs = 1
            /\ (run[j].contID # "" /\ run[j].err = "nil") =>
                  /\ run[j].events = <<"RemoveContainer">>
                  /\ run[j].logs = 0
            /\ run[j].contID # "" =>
                  /\ run[j].removed = {run[j].contID}
                  /\ ~\E c \in containers : c.ID = run[j].contID
            /\ run[j].contID = "" => run[j].events = <<>> /\ run[j].logs = 0

C19_Witness ==
    \E j \in Jobs :
        /\ pc[j] = "returned"
        /\ run[j].contID # ""
        /\ run[j].err = "failed to restore a database"
        /\ run[j].events = <<"PrintContainerLogs", "RemoveContainer">>


\* C20: once restoreDB has returned an error for a database, that database is
\* the last one Run restores; Run runs neither the analyze command nor the
\* stop of PostgreSQL and returns an error.
C20_FailedRestoreIsFatal ==
    \A j \in Jobs :
        run[j].failedDB # {} =>
            /\ Cardinality(run[j].failedDB) = 1
            /\ run[j].order # <<>>
            /\ run[j].order[Len(run[j].order)] \in run[j].failedDB
            /\ \A i \in 1..(Len(run[j].order) - 1) : run[j].order[i] \notin run[j].failedDB
            /\ pc[j] \in {"deferred", "returned", "idle"}
            /\ ~\E i \in 1..Len(run[j].cmds) : run[j].cmds[i].kind = "analyze"
            /\ ~run[j].analyzed
            /\ ~run[j].stopped
            /\ run[j].err = "failed to restore a database"

C20_Witness ==
    \E j \in Jobs :
        /\ pc[j] = "returned"
        /\ run[j].failedDB # {}
        /\ run[j].todo # {}
        /\ run[j].err = "failed to restore a database"


NonTerminal == {"pull", "config", "create", "start", "ready", "setup", "configs", "dblist",
                "restore", "stop"}

\* A step of Run that makes it return an error.
Fails(j) ==
    /\ \/ PullImage(j)
       \/ PrepareContainerConfig(j)
       \/ ContainerCreate(j)
       \/ ContainerStart(j)
       \/ CheckContainerReadiness(j)
       \/ SetupPGData(j)
       \/ UpdateConfigs(j)
       \/ GetDBList(j)
       \/ RestoreDB(j)
       \/ Analyze(j)
       \/ StopPostgres(j)
    /\ pc'[j] \in {"deferred", "returned"}
    /\ run'[j].err # "nil"

\* The failed state is one step away, or two where the list of databases is
\* read without a fallible call (a configured list, a scanned directory).
CanFail(j) ==
    \/ ENABLED Fails(j)
    \/ pc[j] = "dblist" /\ ENABLED (GetDBList(j) /\ pc'[j] = "restore")

AnalyzeRan(j) == \E i \in 1..Len(run[j].cmds) : run[j].cmds[i].kind = "analyze"

AllRestoredAndMarked(j) ==
    /\ run[j].todo = {}
    /\ run[j].restored = DOMAIN run[j].dbList
    /\ \A d \in DOMAIN run[j].dbList :
          run[j].dbList[d].Format # plainFormat => d \in run[j].marked

LaterStages(j) ==
    /\ "create" \in run[j].ops => "pull" \in run[j].ops
    /\ "start" \in run[j].ops => run[j].contID # ""
    /\ run[j].dbList # NoDBs => "start" \in run[j].ops
    /\ AnalyzeRan(j) => AllRestoredAndMarked(j)
    /\ (pc[j] = "stop" \/ run[j].stopped) => run[j].analyzed /\ AllRestoredAndMarked(j)
    /\ pc[j] \in NonTerminal => CanFail(j)

FailedIsTerminal(j) ==
    (pc[j] \in {"returned", "idle"} /\ run[j].err # "nil") =>
        \/ run'[j] = run[j] /\ pc'[j] \in {"returned", "idle"}
        \/ runs'[j] = runs[j] + 1

\* C21 as claimed: the image pull precedes the check of the data directory,
\* which precedes the creation of the container; the analyze command runs only
\* after every discovered database was restored and marked, the stop of
\* PostgreSQL only after the analyze command succeeded; from every
\* non-terminal state a step to the failed state is possible, and a failed run
\* does nothing more.
C21_PullThenCheckThenCreate ==
    /\ [](\A j \in Jobs :
            /\ run[j].explored # "none" => "pull" \in run[j].ops
            /\ "create" \in run[j].ops => run[j].explored \in {"empty", "nonempty"}
            /\ LaterStages(j))
    /\ [][\A j \in Jobs : FailedIsTerminal(j)]_vars

\* C21 as amended: the check of the data directory precedes the image pull,
\* which precedes the creation of the container; the rest as claimed.
C21_CheckThenPullThenCreate ==
    /\ [](\A j \in Jobs :
            /\ "pull" \in run[j].ops =>
                  /\ run[j].explored \in {"empty", "nonempty"}
                  /\ run[j].explored = "nonempty" => run[j].forceInit
            /\ (Ran(j) /\ run[j].explored \notin {"empty", "nonempty"}) => run[j].ops = {}
            /\ LaterStages(j))
    /\ [][\A j \in Jobs : FailedIsTerminal(j)]_vars

C21_Witness ==
    \E j \in Jobs :
        /\ pc[j] = "returned"
        /\ run[j].err = "nil"
        /\ run[j].stopped
        /\ AnalyzeRan(j)
        /\ Cardinality(DOMAIN run[j].dbList) = 2
        /\ "pull" \in run[j].ops


ReadinessErrors == {"failed to readiness check", "failed to set up Postgres data"}

\* C22: a healthy container proceeds; after an error of the health-check class
\* setupPGData runs and then readiness is awaited again before the job goes
\* on; any other readiness error and any setupPGData error fail the job
\* without a restore command having run.
C22_ReadinessAwaitedAgain ==
    [][\A j \in Jobs :
          /\ (pc[j] = "ready" /\ pc'[j] \notin {"ready", "setup", "deferred"}) =>
                pc'[j] \in {"configs", "dblist"}
          /\ (pc[j] = "setup" /\ pc'[j] \notin {"setup", "deferred"}) => pc'[j] = "ready"
          /\ run'[j].err \in ReadinessErrors =>
                /\ run'[j].cmds = <<>>
                /\ pc'[j] \in {"deferred", "returned", "idle"}]_vars


PrepareRan(j, ok) ==
    \E i \in 1..Len(run[j].cmds) : run[j].cmds[i].kind = "prepare" /\ run[j].cmds[i].ok = ok

\* C23: once prepareDB has returned, on success, on a failed write or on a
\* failed psql command, no temporary file it created is left under the dump
\* location; it did create one whenever it got as far as the psql command.
C23_TempFileRemoved ==
    \A j \in Jobs :
        /\ run[j].tempLeft = {}
        /\ (PrepareRan(j, TRUE) \/ PrepareRan(j, FALSE)) => run[j].tempCreated # {}

C23_Witness ==
    \E j \in Jobs :
        /\ pc[j] = "returned"
        /\ run[j].err = "failed to restore a database"
        /\ run[j].tempCreated # {}
        /\ run[j].tempLeft = {}
        /\ ~PrepareRan(j, TRUE)


PgRestoreCall ==
    /\ call # NoCall
    /\ call.fn = "buildLogicalRestoreCommand"
    /\ call.args.definition.Format \in {customFormat, directoryFormat}

\* C24: for the custom and the directory format the command is pg_restore
\* --username <user> --dbname <default> --no-privileges --no-owner, then
\* --create if at all, then --clean --if-exists exactly when forceInit is set,
\* then --jobs <N>, then one --table T per declared table in the order of
\* declaration, then the dump path: the dump location for the custom format,
\* <dumpLocation>/<unit> for the directory format.
C24_PgRestoreArguments ==
    PgRestoreCall =>
        LET a == call.args
            cmd == call.result
            n == Len(cmd)
            tabs == a.definition.Tables
            create == IF n >= 8 /\ cmd[8] = ArgCreate THEN 1 ELSE 0
            clean == IF a.o.ForceInit THEN 2 ELSE 0
            jobsAt == 8 + create + clean
        IN  /\ n = jobsAt + 2 + 2 * Len(tabs)
            /\ SubSeq(cmd, 1, 7) = <<ArgPgRestore, ArgUsername, a.g.User, ArgDbname,
                                     DefaultDBName, ArgNoPrivileges, ArgNoOwner>>
            /\ a.o.ForceInit => cmd[8 + create] = ArgClean /\ cmd[9 + create] = ArgIfExists
            /\ ~a.o.ForceInit => \A i \in 1..n : cmd[i] \notin {ArgClean, ArgIfExists}
            /\ \A i \in 9..n : cmd[i] # ArgCreate
            /\ cmd[jobsAt] = ArgJobs
            /\ cmd[jobsAt + 1] = (IF a.o.ParallelJobs = 1 THEN <<"1">> ELSE <<"2">>)
            /\ \A i \in 1..Len(tabs) :
                  cmd[jobsAt + 2 * i] = ArgTable /\ cmd[jobsAt + 2 * i + 1] = tabs[i]
            /\ cmd[n] = (IF a.definition.Format = customFormat
                         THEN a.o.DumpLocation
                         ELSE a.o.DumpLocation \o <<"/">> \o a.dumpName)

C24_Witness ==
    /\ PgRestoreCall
    /\ call.args.definition.Format = customFormat
    /\ call.args.o.ForceInit
    /\ Len(call.args.definition.Tables) = 2
    /\ call.args.dumpName # DefaultDBName
    /\ call.result[Len(call.result)] = DumpLocation


\* The list of databases of the run in progress came from the scan of the
\* dump location: no configured databases and no toc.dat.
ScannedList(j) ==
    /\ pc[j] \in {"restore", "stop", "deferred"}
    /\ DOMAIN Opts(j).Databases = {}
    /\ dump.toc = "absent"
    /\ run[j].dbList # NoDBs

Entries == {dump.entries[i] : i \in 1..Len(dump.entries)}

BesideFiles(e) == e.IsDir /\ \E f \in Entries : ~f.IsDir

\* C25 as claimed: in the scan of the dump location a subdirectory whose
\* siblings include regular files gets the plain format.
C25_SubdirectoryBesideFilesIsPlain ==
    \A j \in Jobs :
        ScannedList(j) =>
            \A e \in Entries : BesideFiles(e) => run[j].dbList[e.Name].Format = plainFormat

\* C25 as amended: in the scan of the dump location a subdirectory gets the
\* directory format, also when its siblings include regular files.
C25_SubdirectoryIsDirectoryFormat ==
    \A j \in Jobs :
        ScannedList(j) =>
            \A e \in Entries :
                e.IsDir => run[j].dbList[e.Name] = DBDefinition(directoryFormat, NoName, <<>>)

C25_Witness ==
    \E j \in Jobs :
        /\ ScannedList(j)
        /\ \E e \in Entries :
              /\ BesideFiles(e)
              /\ run[j].dbList[e.Name].Format = directoryFormat
              /\ e.Name \in run[j].restored


\* The step is a restoreDB of job j that restored the plain unit d.
PlainRestoreStep(j, d) ==
    /\ pc[j] = "restore"
    /\ d \in run[j].todo
    /\ run[j].dbList[d].Format = plainFormat
    /\ run'[j].order = Append(run[j].order, d)
    /\ d \in run'[j].restored

\* C26: the successful restore of a plain unit leaves the DBMark file, the
\* DBMark of the job and the dataStateAt of the pool as they were, and runs no
\* pg_restore --list command.
C26_PlainRestoreMarksNothing ==
    [][\A j \in Jobs : \A d \in run[j].todo :
          PlainRestoreStep(j, d) =>
              /\ markFile'[j] = markFile[j]
              /\ job'[j].dbMark = job[j].dbMark
              /\ fsPool'[j].dataStateAt = fsPool[j].dataStateAt
              /\ run'[j].marked = run[j].marked
              /\ \A i \in (Len(run[j].cmds) + 1)..Len(run'[j].cmds) :
                    /\ run'[j].cmds[i].kind \in {"prepare", "restore"}
                    /\ run'[j].cmds[i].argv[1] # ArgPgRestore]_vars

C26_Witness ==
    \E j \in Jobs :
        \E d \in run[j].restored :
            /\ run[j].dbList[d].Format = plainFormat
            /\ run[j].err = "nil"
            /\ markFile[j] = run[j].fileAtStart
            /\ \E i \in 1..Len(run[j].cmds) :
                  run[j].cmds[i].kind = "restore" /\ run[j].cmds[i].unit = d


\* C27: the DBMark of a job object is never reset: it holds the most recent
\* non-empty timestamp extracted so far by the job, in this run or an earlier
\* one, or nothing when none was extracted; the dataStateAt written to the
\* DBMark file is that timestamp, so a database whose extraction failed is
\* marked with the timestamp of the database marked before it.
C27_MarkIsLastExtracted ==
    \A j \in Jobs :
        /\ job[j].dbMark.DataStateAt = run[j].lastExt
        /\ (run[j].lastMark.done /\ run[j].lastMark.saved) =>
              /\ run[j].lastMark.fileDSA = run[j].lastExt
              /\ markFile[j].exists
              /\ markFile[j].DataStateAt = run[j].lastExt

C27_Witness ==
    \E j \in Jobs :
        \E d1, d2 \in run[j].marked :
            /\ d1 # d2
            /\ run[j].order = <<d1, d2>>
            /\ run[j].ext[d1] # ""
            /\ run[j].ext[d2] = ""
            /\ run[j].lastMark.saved
            /\ run[j].lastMark.extFailed
            /\ markFile[j].DataStateAt = run[j].ext[d1]


\* The last markDatabase of the run failed to create or to save the DBMark.
MarkerFailed(j) == run[j].lastMark.done /\ ~run[j].lastMark.markerOK

LastUnit(j) == run[j].order[Len(run[j].order)]

\* C28: when CreateConfig or SaveConfig fails after a successful restore
\* command, the job fails, the pool's dataStateAt stays what it was before
\* that database, no further database is restored, neither the analyze command
\* nor the stop of PostgreSQL runs, and the container is still removed.
C28_MarkerFailureIsFatal ==
    \A j \in Jobs :
        MarkerFailed(j) =>
            /\ run[j].lastMark.err = "failed to mark the database"
            /\ run[j].err = "failed to restore a database"
            /\ ~run[j].lastMark.saved
            /\ run[j].lastMark.poolAfter = run[j].lastMark.poolBefore
            /\ fsPool[j].dataStateAt = run[j].lastMark.poolBefore
            /\ pc[j] \in {"deferred", "returned", "idle"}
            /\ LastUnit(j) \in run[j].restored
            /\ LastUnit(j) \notin run[j].marked
            /\ run[j].failedDB = {LastUnit(j)}
            /\ run[j].cmds[Len(run[j].cmds)].kind = "meta"
            /\ run[j].cmds[Len(run[j].cmds)].unit = LastUnit(j)
            /\ ~AnalyzeRan(j)
            /\ ~run[j].analyzed
            /\ ~run[j].stopped
            /\ pc[j] \in {"returned", "idle"} =>
                  /\ run[j].removed = {run[j].contID}
                  /\ ~\E c \in containers : c.ID = run[j].contID

C28_Witness ==
    \E j \in Jobs :
        /\ MarkerFailed(j)
        /\ pc[j] = "returned"
        /\ run[j].todo # {}
        /\ run[j].lastMark.fileDSA # ""
        /\ ~run[j].lastMark.extFailed
        /\ run[j].removed = {run[j].contID}

=============================================================================
